---- MODULE Spec2Model ----
(***************************************************************************)
(* GpuHashTable (gpu_hashtable.cu / gpu_hashtable.hpp): a linear-probing   *)
(* hash table of uint32 key/value pairs in unified memory, with batched    *)
(* insert and lookup kernels and a load-factor driven reshape.             *)
(*                                                                         *)
(* The host thread and the CUDA workers of the running kernel are the      *)
(* processes.  A worker step is one access to shared memory (atomicCAS,    *)
(* atomicAdd, a store to a value field, a load of a key); the thread-local *)
(* computation around it belongs to the same step.                         *)
(***************************************************************************)
EXTENDS Integers, Sequences, FiniteSets, TLC

(***************************************************************************)
(* Bounds of the model.                                                    *)
(***************************************************************************)
MaxKey == 2
MaxVal == 2
MaxBatch == 2
MaxGet == 1
MaxCap == 6

Keys == 1..MaxKey
Vals == 1..MaxVal

(***************************************************************************)
(* uint32 words.  A word is <<high half, low half>>, each half 16 bits     *)
(* wide, so that every step of the mix stays inside the 32 bits of the     *)
(* source type: sums wrap around, shifts drop the bits they push out.      *)
(***************************************************************************)
Half == 65536

Pow2(n) == 2 ^ n

Word(k) == <<k \div Half, k % Half>>

WNot(w) == <<(Half - 1) - w[1], (Half - 1) - w[2]>>

WAdd(a, b) ==
  LET lo == a[2] + b[2]
  IN  <<(a[1] + b[1] + (lo \div Half)) % Half, lo % Half>>

WShl(w, n) ==
  LET lo == w[2] * Pow2(n)
  IN  <<((w[1] * Pow2(n)) + (lo \div Half)) % Half, lo % Half>>

WShr(w, n) ==
  <<w[1] \div Pow2(n), (w[2] \div Pow2(n)) + ((w[1] % Pow2(n)) * Pow2(16 - n))>>

RECURSIVE Xor16(_, _)
Xor16(a, b) ==
  IF a = 0 THEN b
  ELSE IF b = 0 THEN a
  ELSE ((a + b) % 2) + 2 * Xor16(a \div 2, b \div 2)

WXor(a, b) == <<Xor16(a[1], b[1]), Xor16(a[2], b[2])>>

\* w % c for a word w and a capacity c (c small enough for the products)
WMod(w, c) == (((w[1] % c) * (Half % c)) + (w[2] % c)) % c

\* hashFunc: the 32-bit Jenkins mix, line by line
hashFunc(key) ==
  LET h0 == Word(key)
      h1 == WAdd(WNot(h0), WShl(h0, 15))
      h2 == WXor(h1, WShr(h1, 12))
      h3 == WAdd(h2, WShl(h2, 2))
      h4 == WXor(h3, WShr(h3, 4))
      h5 == WAdd(WAdd(h4, WShl(h4, 3)), WShl(h4, 11))
      h6 == WXor(h5, WShr(h5, 16))
  IN  h6

\* the hashes of the keys of the model, computed once
HashOf == [key \in Keys |-> hashFunc(key)]

\* hashFunc(key) % capacity, the home bucket of a key
Home(key, cap) == WMod(HashOf[key], cap)

(***************************************************************************)
(* float.  A single-precision value is <<m, e>>, standing for m * 2^e with *)
(* a 24-bit significand 2^23 <= m < 2^24, or <<0, 0>> for zero.  Only      *)
(* non-negative values in the normal range occur.  Conversions and the     *)
(* division round to nearest, ties to even, as the hardware does.  The     *)
(* counts and capacities that are converted stay below 2^30, far from the  *)
(* wrap-around of uint32 and from the range of int.                        *)
(***************************************************************************)
RECURSIVE BitLen(_)
BitLen(n) == IF n = 0 THEN 0 ELSE 1 + BitLen(n \div 2)

\* an integer of at most 24 bits as a float: the value is kept exactly
Exact(u) == <<u * Pow2(24 - BitLen(u)), BitLen(u) - 24>>

\* round (q + f) * 2^e to 24 bits, where q has at least 25 bits, 0 <= f < 1
\* and sticky says whether f > 0
RoundTo24(q, e, sticky) ==
  LET s    == BitLen(q) - 24
      m    == q \div Pow2(s)
      low  == q % Pow2(s)
      half == Pow2(s - 1)
      up   == (low > half) \/ (low = half /\ (sticky \/ m % 2 = 1))
      r    == IF up THEN m + 1 ELSE m
  IN  IF r = 16777216 THEN <<8388608, e + s + 1>> ELSE <<r, e + s>>

\* (float) u for an unsigned integer u
U2F(u) ==
  IF u = 0 THEN <<0, 0>>
  ELSE IF BitLen(u) <= 24 THEN Exact(u)
  ELSE RoundTo24(u, 0, FALSE)

\* n further quotient bits of the long division by d < 2^24, from quotient
\* q and remainder r, up to 7 bits at a time
RECURSIVE LongDiv(_, _, _, _)
LongDiv(q, r, d, n) ==
  IF n = 0 THEN <<q, r>>
  ELSE LET k == IF n >= 7 THEN 7 ELSE n
       IN  LongDiv((q * Pow2(k)) + ((r * Pow2(k)) \div d), (r * Pow2(k)) % d, d, n - k)

\* a / b for floats a >= 0 and b > 0
FDiv(a, b) ==
  IF a[1] = 0 THEN <<0, 0>>
  ELSE LET qr == LongDiv(a[1] \div b[1], a[1] % b[1], b[1], 25)
       IN  RoundTo24(qr[1], (a[2] - b[2]) - 25, qr[2] # 0)

\* a > b for floats a, b >= 0
FGt(a, b) ==
  IF a[1] = 0 THEN FALSE
  ELSE IF b[1] = 0 THEN TRUE
  ELSE a[2] > b[2] \/ (a[2] = b[2] /\ a[1] > b[1])

\* (int) a: the conversion truncates
F2I(a) == IF a[2] >= 0 THEN a[1] * Pow2(a[2]) ELSE a[1] \div Pow2(0 - a[2])

\* 0.5f and 0.8f
MIN_LOAD_FACTOR == <<8388608, -24>>
MAX_LOAD_FACTOR == <<13421773, -24>>

loadFactor(used, cap) == FDiv(U2F(used), U2F(cap))

\* an insertBatch that never resizes
NeedReshape_never(used, n, cap) == FALSE

\* insertBatch's test `lf > MAX_LOAD_FACTOR` on the projected count
NeedReshape(used, n, cap) == FGt(loadFactor(used + n, cap), MAX_LOAD_FACTOR)

\* insertBatch's argument to reshape: (used_buckets + numKeys) / MIN_LOAD_FACTOR
\* computed in float and passed as an int
ReshapeSize(used, n) == F2I(FDiv(U2F(used + n), MIN_LOAD_FACTOR))

\* both, computed once for the counts and capacities of the small tables
SmallCounts == 0..(MaxCap + MaxBatch)
LfHigh == [u \in SmallCounts |-> [c \in 1..MaxCap |-> NeedReshape(u, 0, c)]]
SizeFor == [u \in SmallCounts |-> ReshapeSize(u, 0)]

(***************************************************************************)
(* The table object, the host thread and the kernel in flight.             *)
(***************************************************************************)
VARIABLES
  table,               \* this->table: the current store, slot index -> entry
  capacity,            \* this->capacity
  used_buckets,        \* this->used_buckets
  old_table,           \* reshape's old_table, << >> outside a reshape
  keys,                \* the running call's keys argument
  values,              \* the running call's values argument
  device_keys,         \* staging buffer, << >> when not allocated
  device_values,       \* staging buffer, << >> when not allocated
  count_updated_keys,  \* the managed update counter of kernelInsert
  heap,                \* names of the device allocations currently held
  pc,                  \* where the host thread is
  caller,              \* the public call the host thread is serving
  wpc,                 \* worker idx -> position in the kernel
  generated_hash,      \* worker idx -> its local probe index
  ret,                 \* what the last call returned, and getBatch's host_values
  call,                \* history: what the running/last call found and decided
  last,                \* history: key -> values given for it by the last batch holding it
  hist,                \* history: which kinds of call have been made so far
  probes,              \* history: worker idx -> passes of its probe loop so far
  claimed,             \* history: slot -> the worker whose atomicCAS of the running
                       \*          kernel replaced KEY_INVALID there, or NoWorker
  writers              \* history: slot -> the workers of the running kernel that
                       \*          have stored to its value field

vars == <<table, capacity, used_buckets, old_table, keys, values, device_keys,
          device_values, count_updated_keys, heap, pc, caller, wpc,
          generated_hash, ret, call, last, hist, probes, claimed, writers>>

\* the reserved "empty" key (all bits one; -1 as the int of the interface)
KEY_INVALID == -1

\* content of cudaMalloc'ed memory nobody has written yet
NoValue == 0

\* cudaMemset(table, KEY_INVALID, size * sizeof(struct TableEntry)): every
\* byte of every entry, key and value alike, is set to the low byte of
\* KEY_INVALID
EmptyTable(size) ==
  [s \in 0..(size - 1) |-> [key |-> KEY_INVALID, value |-> KEY_INVALID]]

Slots(tab) == DOMAIN tab

\* the keys and the (key, value) pairs a store holds
LiveKeys(tab) == {tab[s].key : s \in {t \in Slots(tab) : tab[t].key # KEY_INVALID}}
Pairs(tab) ==
  {<<tab[s].key, tab[s].value>> : s \in {t \in Slots(tab) : tab[t].key # KEY_INVALID}}
NonEmpty(tab) == {s \in Slots(tab) : tab[s].key # KEY_INVALID}

Len0(f) == Cardinality(DOMAIN f)
Distinct(f) == \A i, j \in DOMAIN f : f[i] = f[j] => i = j

\* arrays of n elements, indexed from 0 as in the source
Arrays(n, S) == [0..(n - 1) -> S]

Finished(w) == w \in {"done", "abandoned"}

NoWorker == -1
Unclaimed(size) == [s \in 0..(size - 1) |-> NoWorker]
Unwritten(size) == [s \in 0..(size - 1) |-> {}]

\* one more pass of a probe loop.  Counts above MaxCap, which is more than a
\* worker that goes round the store once can make, are not told apart: the
\* count then alternates between MaxCap + 1 and MaxCap + 2, so that a pass of
\* the loop is a step also for a worker that spins on a store of one slot
OneMore(n) == IF n > MaxCap + 1 THEN MaxCap + 1 ELSE n + 1

\* a return value other than getBatch's array
Ret(v) == [val |-> v, host_values |-> << >>]

NoCall == [op |-> "construct", used0 |-> 0, capacity0 |-> 0, pairs0 |-> {},
           n |-> 0, resized |-> FALSE, asked |-> << >>, fresh |-> FALSE]

\* GpuHashTable::GpuHashTable(size)
Init ==
  /\ capacity \in 1..MaxCap
  /\ table = EmptyTable(capacity)
  /\ used_buckets = 0
  /\ old_table = << >>
  /\ keys = << >>
  /\ values = << >>
  /\ device_keys = << >>
  /\ device_values = << >>
  /\ count_updated_keys = 0
  /\ heap = {"table"}
  /\ pc = "idle"
  /\ caller = "none"
  /\ wpc = << >>
  /\ generated_hash = << >>
  /\ ret = Ret("void")
  /\ call = [NoCall EXCEPT !.capacity0 = capacity]
  /\ last = [k \in Keys |-> {}]
  /\ hist = [reshape |-> FALSE]
  /\ probes = << >>
  /\ claimed = << >>
  /\ writers = << >>

\* a probe that steps over a slot
NextSlot_skipping(h, cap) == (h + 2) % cap

\* generated_hash = (generated_hash + 1) % capacity
NextSlot(h, cap) == (h + 1) % cap

\* a kernelInsert that takes every occupied slot for its own key's
IsUpdate_always(old_key, key) == TRUE

\* a kernelInsert without the update branch
IsUpdate_never(old_key, key) == FALSE

\* kernelInsert's test `old_key == device_keys[idx]`: the slot already holds
\* the worker's key
IsUpdate(old_key, key) == old_key = key

\* a kernelReshape that copies the key field into the value
CopiedValue_key(old, idx) == old[idx].key

\* kernelReshape: the value a worker copies into the slot it has claimed
CopiedValue(old, idx) == old[idx].value

\* an insertBatch that counts every key of the batch as new
NewUsed_all(used, numKeys, updated) == used + numKeys

\* insertBatch: used_buckets += numKeys - *count_updated_keys
NewUsed(used, numKeys, updated) == (used + numKeys) - updated

\* a call without the early return
NothingToDo_never(numKeys) == FALSE

\* insertBatch / getBatch: `if (numKeys == 0) return ...`
NothingToDo(numKeys) == numKeys = 0

\* a plain store in place of the atomicCAS: the key is written whatever the
\* slot holds
Won_always(old_key) == TRUE

\* the test `old_key == KEY_INVALID` on what atomicCAS returned: the exchange
\* took place and the slot is the worker's
Won(old_key) == old_key = KEY_INVALID

\* a probe loop that gives up after its first failed atomicCAS
BackHome_always(next, home) == TRUE

\* a probe loop without the test for the full store
BackHome_never(next, home) == FALSE

\* kernelInsert / kernelReshape: `generated_hash == hashFunc(key) % capacity`
\* after the step to the next slot
BackHome(next, home) == next = home

\* a kernelGet that stops at the first occupied slot
Matches_occupied(tab, h, key) == tab[h].key # KEY_INVALID

\* kernelGet's test `device_keys[idx] == table[generated_hash].key`
Matches(tab, h, key) == tab[h].key = key

\* a reshape without `this->capacity = numBucketsReshape`
BeginReshape_keeping(numBucketsReshape) ==
  /\ old_table' = table
  /\ table' = EmptyTable(numBucketsReshape)
  /\ capacity' = capacity
  /\ heap' = heap \cup {"old_table"}
  /\ wpc' = [idx \in Slots(table) |->
               IF table[idx].key = KEY_INVALID THEN "done" ELSE "cas"]
  /\ generated_hash' = [idx \in Slots(table) |->
               IF table[idx].key = KEY_INVALID THEN 0
               ELSE Home(table[idx].key, numBucketsReshape)]
  /\ probes' = [idx \in Slots(table) |-> 0]
  /\ claimed' = Unclaimed(numBucketsReshape)
  /\ writers' = Unwritten(numBucketsReshape)
  /\ pc' = "reshape"

(***************************************************************************)
(* reshape: lines 150-169, up to and including the kernel launch.  The new *)
(* store and the new capacity are installed in the object before the       *)
(* kernel runs; kernelReshape's first line (the bounds and empty-slot      *)
(* test, which reads only the old store) is taken at launch.               *)
(***************************************************************************)
BeginReshape(numBucketsReshape) ==
  /\ old_table' = table
  /\ table' = EmptyTable(numBucketsReshape)
  /\ capacity' = numBucketsReshape
  /\ heap' = heap \cup {"old_table"}
  /\ wpc' = [idx \in Slots(table) |->
               IF table[idx].key = KEY_INVALID THEN "done" ELSE "cas"]
  /\ generated_hash' = [idx \in Slots(table) |->
               IF table[idx].key = KEY_INVALID THEN 0
               ELSE Home(table[idx].key, numBucketsReshape)]
  /\ probes' = [idx \in Slots(table) |-> 0]
  /\ claimed' = Unclaimed(numBucketsReshape)
  /\ writers' = Unwritten(numBucketsReshape)
  /\ pc' = "reshape"

(***************************************************************************)
(* insertBatch: lines 249-275, staging the batch and launching the kernel. *)
(* `cap` is the capacity the kernel is launched with.                      *)
(***************************************************************************)
LaunchInsert(ks, vs, cap) ==
  /\ device_keys' = ks
  /\ device_values' = vs
  /\ count_updated_keys' = 0
  /\ wpc' = [idx \in DOMAIN ks |-> "cas"]
  /\ generated_hash' = [idx \in DOMAIN ks |-> Home(ks[idx], cap)]
  /\ probes' = [idx \in DOMAIN ks |-> 0]
  /\ claimed' = Unclaimed(cap)
  /\ writers' = Unwritten(cap)
  /\ pc' = "insert"

Snapshot(op, n, resized, asked) ==
  [op |-> op, used0 |-> used_buckets, capacity0 |-> capacity,
   pairs0 |-> Pairs(table), n |-> n, resized |-> resized, asked |-> asked,
   fresh |-> Distinct(asked) /\ \A i \in DOMAIN asked : asked[i] \notin LiveKeys(table)]

Staging == {"device_keys", "device_values", "count_updated_keys"}

(***************************************************************************)
(* bool GpuHashTable::insertBatch(keys, values, numKeys), from the call to *)
(* the first kernel launch: the early return on numKeys == 0, the load     *)
(* factor test on used_buckets + numKeys, then either reshape (which       *)
(* launches kernelReshape) or, directly, the launch of kernelInsert.       *)
(***************************************************************************)
InsertBatch(ks, vs) ==
  /\ pc = "idle"
  /\ DOMAIN ks = DOMAIN vs
  /\ caller' = "insertBatch"
  /\ keys' = ks
  /\ values' = vs
  /\ LET numKeys == Len0(ks)
         lf_high == LfHigh[used_buckets + numKeys][capacity]
         size    == SizeFor[used_buckets + numKeys]
     IN  IF NothingToDo(numKeys)
         THEN /\ ret' = Ret("false")
              /\ call' = Snapshot("insertBatch", 0, FALSE, << >>)
              /\ UNCHANGED <<table, capacity, used_buckets, old_table, device_keys,
                             device_values, count_updated_keys, heap, pc, wpc,
                             generated_hash, last, hist, probes, claimed, writers>>
         ELSE /\ ret' = Ret("pending")
              /\ call' = Snapshot("insertBatch", numKeys, lf_high, ks)
              /\ last' = [k \in Keys |->
                            IF \E i \in DOMAIN ks : ks[i] = k
                            THEN {vs[i] : i \in {j \in DOMAIN ks : ks[j] = k}}
                            ELSE last[k]]
              /\ UNCHANGED hist
              /\ IF lf_high
                 THEN /\ size <= MaxCap
                      /\ BeginReshape(size)
                      /\ UNCHANGED <<used_buckets, device_keys, device_values,
                                     count_updated_keys>>
                 ELSE /\ LaunchInsert(ks, vs, capacity)
                      /\ heap' = heap \cup Staging
                      /\ UNCHANGED <<table, capacity, used_buckets, old_table>>

(***************************************************************************)
(* void GpuHashTable::reshape(numBucketsReshape), called by the user.      *)
(***************************************************************************)
Reshape(numBucketsReshape) ==
  /\ pc = "idle"
  /\ caller' = "reshape"
  /\ ret' = Ret("pending")
  /\ call' = Snapshot("reshape", numBucketsReshape, TRUE, << >>)
  /\ hist' = [hist EXCEPT !.reshape = TRUE]
  /\ BeginReshape(numBucketsReshape)
  /\ UNCHANGED <<used_buckets, keys, values, device_keys, device_values,
                 count_updated_keys, last>>

(***************************************************************************)
(* kernelReshape, worker idx: one pass of the loop is the atomicCAS on the *)
(* probed slot of the new store and, when it loses, the step to the next   *)
(* slot with the test for having come back to the home bucket.             *)
(***************************************************************************)
ReshapeCAS(idx) ==
  /\ pc = "reshape"
  /\ idx \in DOMAIN wpc
  /\ wpc[idx] = "cas"
  /\ LET h       == generated_hash[idx]
         old_key == table[h].key
         next    == NextSlot(h, capacity)
     IN  IF Won(old_key)
         THEN /\ table' = [table EXCEPT ![h].key = old_table[idx].key]
              /\ wpc' = [wpc EXCEPT ![idx] = "write"]
              /\ claimed' = [claimed EXCEPT ![h] = idx]
              /\ UNCHANGED generated_hash
         ELSE /\ generated_hash' = [generated_hash EXCEPT ![idx] = next]
              /\ wpc' = [wpc EXCEPT ![idx] =
                           IF BackHome(next, Home(old_table[idx].key, capacity))
                           THEN "abandoned" ELSE "cas"]
              /\ UNCHANGED <<table, claimed>>
  /\ probes' = [probes EXCEPT ![idx] = OneMore(@)]
  /\ UNCHANGED <<capacity, used_buckets, old_table, keys, values, device_keys,
                 device_values, count_updated_keys, heap, pc, caller, ret, call,
                 last, hist, writers>>

\* kernelReshape, worker idx: new_table[generated_hash].value = old_table[idx].value
ReshapeWrite(idx) ==
  /\ pc = "reshape"
  /\ idx \in DOMAIN wpc
  /\ wpc[idx] = "write"
  /\ table' = [table EXCEPT ![generated_hash[idx]].value = CopiedValue(old_table, idx)]
  /\ writers' = [writers EXCEPT ![generated_hash[idx]] = @ \cup {idx}]
  /\ wpc' = [wpc EXCEPT ![idx] = "done"]
  /\ UNCHANGED <<capacity, used_buckets, old_table, keys, values, device_keys,
                 device_values, count_updated_keys, heap, pc, caller,
                 generated_hash, ret, call, last, hist, probes, claimed>>

\* a reshape without cudaDeviceSynchronize: the host goes on to free the old
\* store while workers may still be running
ReshapeReturn_unsynchronized ==
  /\ pc = "reshape"
  /\ old_table' = << >>
  /\ IF caller = "insertBatch"
     THEN /\ LaunchInsert(keys, values, capacity)
          /\ heap' = (heap \ {"old_table"}) \cup Staging
          /\ UNCHANGED ret
     ELSE /\ pc' = "idle"
          /\ heap' = heap \ {"old_table"}
          /\ wpc' = << >>
          /\ generated_hash' = << >>
          /\ probes' = << >>
          /\ claimed' = << >>
          /\ writers' = << >>
          /\ ret' = Ret("void")
          /\ UNCHANGED <<device_keys, device_values, count_updated_keys>>
  /\ UNCHANGED <<table, capacity, used_buckets, keys, values, caller, call,
                 last, hist>>

(***************************************************************************)
(* reshape, lines 171-179: cudaDeviceSynchronize returns once every worker *)
(* has finished, then the old store is freed.  A reshape called by         *)
(* insertBatch returns into it, which goes on to launch kernelInsert on    *)
(* the new store.                                                          *)
(***************************************************************************)
ReshapeReturn ==
  /\ pc = "reshape"
  /\ \A idx \in DOMAIN wpc : Finished(wpc[idx])
  /\ old_table' = << >>
  /\ IF caller = "insertBatch"
     THEN /\ LaunchInsert(keys, values, capacity)
          /\ heap' = (heap \ {"old_table"}) \cup Staging
          /\ UNCHANGED ret
     ELSE /\ pc' = "idle"
          /\ heap' = heap \ {"old_table"}
          /\ wpc' = << >>
          /\ generated_hash' = << >>
          /\ probes' = << >>
          /\ claimed' = << >>
          /\ writers' = << >>
          /\ ret' = Ret("void")
          /\ UNCHANGED <<device_keys, device_values, count_updated_keys>>
  /\ UNCHANGED <<table, capacity, used_buckets, keys, values, caller, call,
                 last, hist>>

(***************************************************************************)
(* kernelInsert, worker idx: the atomicCAS on the probed slot.  It claims  *)
(* an empty slot, or finds its own key there (an update), or moves to the  *)
(* next slot and gives up when that is the home bucket again.              *)
(***************************************************************************)
InsertCAS(idx) ==
  /\ pc = "insert"
  /\ idx \in DOMAIN wpc
  /\ wpc[idx] = "cas"
  /\ LET h       == generated_hash[idx]
         old_key == table[h].key
         next    == NextSlot(h, capacity)
     IN  IF Won(old_key)
         THEN /\ table' = [table EXCEPT ![h].key = device_keys[idx]]
              /\ wpc' = [wpc EXCEPT ![idx] = "write"]
              /\ claimed' = [claimed EXCEPT ![h] = idx]
              /\ UNCHANGED generated_hash
         ELSE IF IsUpdate(old_key, device_keys[idx])
         THEN /\ wpc' = [wpc EXCEPT ![idx] = "add"]
              /\ UNCHANGED <<table, generated_hash, claimed>>
         ELSE /\ generated_hash' = [generated_hash EXCEPT ![idx] = next]
              /\ wpc' = [wpc EXCEPT ![idx] =
                           IF BackHome(next, Home(device_keys[idx], capacity))
                           THEN "abandoned" ELSE "cas"]
              /\ UNCHANGED <<table, claimed>>
  /\ probes' = [probes EXCEPT ![idx] = OneMore(@)]
  /\ UNCHANGED <<capacity, used_buckets, old_table, keys, values, device_keys,
                 device_values, count_updated_keys, heap, pc, caller, ret, call,
                 last, hist, writers>>

\* a kernelInsert whose update branch does not count the update
InsertAdd_uncounted(idx) ==
  /\ pc = "insert"
  /\ idx \in DOMAIN wpc
  /\ wpc[idx] = "add"
  /\ wpc' = [wpc EXCEPT ![idx] = "write"]
  /\ UNCHANGED <<table, capacity, used_buckets, old_table, keys, values,
                 device_keys, device_values, count_updated_keys, heap, pc, caller,
                 generated_hash, ret, call, last, hist, probes, claimed, writers>>

\* kernelInsert, worker idx: atomicAdd(count_updated_keys, 1)
InsertAdd(idx) ==
  /\ pc = "insert"
  /\ idx \in DOMAIN wpc
  /\ wpc[idx] = "add"
  /\ count_updated_keys' = count_updated_keys + 1
  /\ wpc' = [wpc EXCEPT ![idx] = "write"]
  /\ UNCHANGED <<table, capacity, used_buckets, old_table, keys, values,
                 device_keys, device_values, heap, pc, caller, generated_hash,
                 ret, call, last, hist, probes, claimed, writers>>

\* kernelInsert, worker idx: table[generated_hash].value = device_values[idx]
InsertWrite(idx) ==
  /\ pc = "insert"
  /\ idx \in DOMAIN wpc
  /\ wpc[idx] = "write"
  /\ table' = [table EXCEPT ![generated_hash[idx]].value = device_values[idx]]
  /\ writers' = [writers EXCEPT ![generated_hash[idx]] = @ \cup {idx}]
  /\ wpc' = [wpc EXCEPT ![idx] = "done"]
  /\ UNCHANGED <<capacity, used_buckets, old_table, keys, values, device_keys,
                 device_values, count_updated_keys, heap, pc, caller,
                 generated_hash, ret, call, last, hist, probes, claimed>>

\* an insertBatch that does not free the update counter
InsertBatchReturn_leaking ==
  /\ pc = "insert"
  /\ \A idx \in DOMAIN wpc : Finished(wpc[idx])
  /\ used_buckets' = NewUsed(used_buckets, Len0(keys), count_updated_keys)
  /\ device_keys' = << >>
  /\ device_values' = << >>
  /\ count_updated_keys' = 0
  /\ heap' = heap \ {"device_keys", "device_values"}
  /\ wpc' = << >>
  /\ generated_hash' = << >>
  /\ pc' = "idle"
  /\ ret' = Ret("true")
  /\ keys' = << >>
  /\ values' = << >>
  /\ probes' = << >>
  /\ claimed' = << >>
  /\ writers' = << >>
  /\ UNCHANGED <<table, capacity, old_table, caller, call, last, hist>>

(***************************************************************************)
(* insertBatch, lines 277-294: after the kernel, the occupancy count is    *)
(* updated and the staging buffers are freed.                              *)
(***************************************************************************)
InsertBatchReturn ==
  /\ pc = "insert"
  /\ \A idx \in DOMAIN wpc : Finished(wpc[idx])
  /\ used_buckets' = NewUsed(used_buckets, Len0(keys), count_updated_keys)
  /\ device_keys' = << >>
  /\ device_values' = << >>
  /\ count_updated_keys' = 0
  /\ heap' = heap \ Staging
  /\ wpc' = << >>
  /\ generated_hash' = << >>
  /\ pc' = "idle"
  /\ ret' = Ret("true")
  /\ keys' = << >>
  /\ values' = << >>
  /\ probes' = << >>
  /\ claimed' = << >>
  /\ writers' = << >>
  /\ UNCHANGED <<table, capacity, old_table, caller, call, last, hist>>

(***************************************************************************)
(* int* GpuHashTable::getBatch(keys, numKeys), up to the kernel launch.    *)
(***************************************************************************)
GetBatch(ks) ==
  /\ pc = "idle"
  /\ caller' = "getBatch"
  /\ keys' = ks
  /\ values' = << >>
  /\ call' = Snapshot("getBatch", Len0(ks), FALSE, ks)
  /\ IF NothingToDo(Len0(ks))
     THEN /\ ret' = Ret("NULL")
          /\ UNCHANGED <<device_keys, device_values, heap, pc, wpc,
                         generated_hash, probes>>
     ELSE /\ ret' = Ret("pending")
          /\ device_keys' = ks
          /\ device_values' = [idx \in DOMAIN ks |-> NoValue]
          /\ heap' = heap \cup {"device_keys", "device_values"}
          /\ wpc' = [idx \in DOMAIN ks |-> "probe"]
          /\ generated_hash' = [idx \in DOMAIN ks |-> Home(ks[idx], capacity)]
          /\ probes' = [idx \in DOMAIN ks |-> 0]
          /\ pc' = "get"
  /\ UNCHANGED <<table, capacity, used_buckets, old_table, count_updated_keys,
                 last, hist, claimed, writers>>

\* a kernelGet that probes with kernelInsert's atomicCAS: it claims the empty
\* slot it meets
GetProbe_claiming(idx) ==
  /\ pc = "get"
  /\ idx \in DOMAIN wpc
  /\ wpc[idx] = "probe"
  /\ LET h == generated_hash[idx]
     IN  IF table[h].key = KEY_INVALID \/ Matches(table, h, device_keys[idx])
         THEN /\ table' = [table EXCEPT ![h].key = device_keys[idx]]
              /\ device_values' = [device_values EXCEPT ![idx] = table[h].value]
              /\ wpc' = [wpc EXCEPT ![idx] = "done"]
              /\ UNCHANGED generated_hash
         ELSE /\ generated_hash' = [generated_hash EXCEPT ![idx] = NextSlot(h, capacity)]
              /\ UNCHANGED <<table, device_values, wpc>>
  /\ probes' = [probes EXCEPT ![idx] = OneMore(@)]
  /\ UNCHANGED <<capacity, used_buckets, old_table, keys, values,
                 device_keys, count_updated_keys, heap, pc, caller, ret, call,
                 last, hist, claimed, writers>>

(***************************************************************************)
(* kernelGet, worker idx: one pass of the loop.  It compares the probed    *)
(* slot's key with its own and either copies the value out or moves on;    *)
(* nothing else ends the loop.                                             *)
(***************************************************************************)
GetProbe(idx) ==
  /\ pc = "get"
  /\ idx \in DOMAIN wpc
  /\ wpc[idx] = "probe"
  /\ LET h == generated_hash[idx]
     IN  IF Matches(table, h, device_keys[idx])
         THEN /\ device_values' = [device_values EXCEPT ![idx] = table[h].value]
              /\ wpc' = [wpc EXCEPT ![idx] = "done"]
              /\ UNCHANGED generated_hash
         ELSE /\ generated_hash' = [generated_hash EXCEPT ![idx] = NextSlot(h, capacity)]
              /\ UNCHANGED <<device_values, wpc>>
  /\ probes' = [probes EXCEPT ![idx] = OneMore(@)]
  /\ UNCHANGED <<table, capacity, used_buckets, old_table, keys, values,
                 device_keys, count_updated_keys, heap, pc, caller, ret, call,
                 last, hist, claimed, writers>>

\* getBatch, lines 359-374: the values are copied to the host, the staging
\* buffers freed
GetBatchReturn ==
  /\ pc = "get"
  /\ \A idx \in DOMAIN wpc : Finished(wpc[idx])
  /\ ret' = [val |-> "host_values", host_values |-> device_values]
  /\ device_keys' = << >>
  /\ device_values' = << >>
  /\ heap' = heap \ {"device_keys", "device_values"}
  /\ wpc' = << >>
  /\ generated_hash' = << >>
  /\ pc' = "idle"
  /\ keys' = << >>
  /\ probes' = << >>
  /\ UNCHANGED <<table, capacity, used_buckets, old_table, values,
                 count_updated_keys, caller, call, last, hist, claimed, writers>>

Workers == 0..(MaxCap - 1)

Next ==
  \/ \E n \in 0..MaxBatch : \E ks \in Arrays(n, Keys) : \E vs \in Arrays(n, Vals) :
       InsertBatch(ks, vs)
  \/ \E c \in 1..MaxCap : Reshape(c)
  \/ \E idx \in Workers : ReshapeCAS(idx)
  \/ \E idx \in Workers : ReshapeWrite(idx)
  \/ ReshapeReturn
  \/ \E idx \in Workers : InsertCAS(idx)
  \/ \E idx \in Workers : InsertAdd(idx)
  \/ \E idx \in Workers : InsertWrite(idx)
  \/ InsertBatchReturn
  \/ \E n \in 0..MaxGet : \E ks \in Arrays(n, Keys) : GetBatch(ks)
  \/ \E idx \in Workers : GetProbe(idx)
  \/ GetBatchReturn

Spec == Init /\ [][Next]_vars

(***************************************************************************)
(* Scheduling.  Every thread of a launched kernel is eventually run by the *)
(* device, and the host thread, blocked in cudaDeviceSynchronize, goes on  *)
(* once the kernel is over.  Nothing obliges the user to make a call.      *)
(***************************************************************************)
WorkerStep(idx) ==
  \/ ReshapeCAS(idx) \/ ReshapeWrite(idx)
  \/ InsertCAS(idx) \/ InsertAdd(idx) \/ InsertWrite(idx)
  \/ GetProbe(idx)

HostStep == ReshapeReturn \/ InsertBatchReturn \/ GetBatchReturn

Fairness == (\A idx \in Workers : WF_vars(WorkerStep(idx))) /\ WF_vars(HostStep)

FairSpec == Spec /\ Fairness

(***************************************************************************)
(* kernelGet as a function of the store: the value a worker for `key`      *)
(* copies out, or "never" when it goes round the store without a match     *)
(* (the loop then goes on for ever).                                       *)
(***************************************************************************)
RECURSIVE Probe(_, _, _, _, _)
Probe(tab, cap, key, h, left) ==
  IF Matches(tab, h, key) THEN tab[h].value
  ELSE IF left = 0 THEN "never"
  ELSE Probe(tab, cap, key, NextSlot(h, cap), left - 1)

Found(tab, cap, key) == Probe(tab, cap, key, Home(key, cap), cap)

(***************************************************************************)
(* The host-side arithmetic of insertBatch at the sizes the README's runs  *)
(* reach (10^7 keys a batch, 10^8 in all).  The store is not represented:  *)
(* a batch is its length and the count kernelInsert leaves in              *)
(* count_updated_keys, which is 0 for a batch of distinct new keys and     *)
(* numKeys for a batch of keys that are all in the table already.          *)
(***************************************************************************)
HostLimit == 67108864

HostCapacities == {1, 1000000, 16777211, 33554434, 41943040}
HostBatches == {10000000, 13421769, 16777217, 26843547, 33554433}

HostInit ==
  /\ capacity \in HostCapacities
  /\ table = << >>
  /\ used_buckets = 0
  /\ old_table = << >>
  /\ keys = << >>
  /\ values = << >>
  /\ device_keys = << >>
  /\ device_values = << >>
  /\ count_updated_keys = 0
  /\ heap = {"table"}
  /\ pc = "idle"
  /\ caller = "none"
  /\ wpc = << >>
  /\ generated_hash = << >>
  /\ ret = Ret("void")
  /\ call = [NoCall EXCEPT !.capacity0 = capacity]
  /\ last = [k \in Keys |-> {}]
  /\ hist = [reshape |-> FALSE]
  /\ probes = << >>
  /\ claimed = << >>
  /\ writers = << >>

\* insertBatch from call to return: lines 241-247 and 282
HostInsertBatch(numKeys, updated) ==
  /\ pc = "idle"
  /\ numKeys >= 1
  /\ updated \in {0, numKeys}
  /\ updated <= used_buckets
  /\ used_buckets + numKeys < HostLimit
  /\ LET lf_high == NeedReshape(used_buckets, numKeys, capacity)
     IN  /\ capacity' = IF lf_high THEN ReshapeSize(used_buckets, numKeys)
                                   ELSE capacity
         /\ call' = [op |-> "insertBatch", used0 |-> used_buckets,
                     capacity0 |-> capacity, pairs0 |-> {}, n |-> numKeys,
                     resized |-> lf_high, asked |-> << >>,
                     fresh |-> (updated = 0)]
  /\ used_buckets' = NewUsed(used_buckets, numKeys, updated)
  /\ caller' = "insertBatch"
  /\ ret' = Ret("true")
  /\ UNCHANGED <<table, old_table, keys, values, device_keys, device_values,
                 count_updated_keys, heap, pc, wpc, generated_hash, last, hist,
                 probes, claimed, writers>>

HostNext == \E numKeys \in HostBatches : \E updated \in {0, numKeys} :
              HostInsertBatch(numKeys, updated)

HostSpec == HostInit /\ [][HostNext]_vars

(***************************************************************************)
(* The two probing kernels on their own, launched on any store: every      *)
(* content of a store of up to MaxStore slots, full ones and ones no       *)
(* sequence of calls produces included, for kernelInsert with any batch    *)
(* and for kernelReshape into any capacity.  The behaviour runs from the   *)
(* launch to the return of the call.                                       *)
(***************************************************************************)
MaxStore == 3

Entries ==
  {[key |-> KEY_INVALID, value |-> KEY_INVALID]} \cup {[key |-> k, value |-> 1] : k \in Keys}
KernelStores == UNION {[0..(c - 1) -> Entries] : c \in 1..MaxStore}
KernelBatches == UNION {Arrays(n, Keys) : n \in 1..MaxBatch}

\* kernelInsert<<<...>>>(table, capacity, device_keys, device_values, numKeys,
\* count_updated_keys) just launched
KernelInsertInit ==
  /\ table \in KernelStores
  /\ capacity = Len0(table)
  /\ used_buckets = Cardinality(NonEmpty(table))
  /\ old_table = << >>
  /\ keys \in KernelBatches
  /\ values = [idx \in DOMAIN keys |-> 2]
  /\ device_keys = keys
  /\ device_values = values
  /\ count_updated_keys = 0
  /\ heap = {"table"} \cup Staging
  /\ pc = "insert"
  /\ caller = "insertBatch"
  /\ wpc = [idx \in DOMAIN keys |-> "cas"]
  /\ generated_hash = [idx \in DOMAIN keys |-> Home(keys[idx], capacity)]
  /\ ret = Ret("pending")
  /\ call = Snapshot("insertBatch", Len0(keys), FALSE, keys)
  /\ last = [k \in Keys |-> {}]
  /\ hist = [reshape |-> FALSE]
  /\ probes = [idx \in DOMAIN keys |-> 0]
  /\ claimed = Unclaimed(capacity)
  /\ writers = Unwritten(capacity)

\* kernelReshape<<<...>>>(old_table, old_capacity, table, capacity) just
\* launched by a direct reshape
KernelReshapeInit ==
  /\ old_table \in KernelStores
  /\ capacity \in 1..MaxStore
  /\ table = EmptyTable(capacity)
  /\ used_buckets = Cardinality(NonEmpty(old_table))
  /\ keys = << >>
  /\ values = << >>
  /\ device_keys = << >>
  /\ device_values = << >>
  /\ count_updated_keys = 0
  /\ heap = {"table", "old_table"}
  /\ pc = "reshape"
  /\ caller = "reshape"
  /\ wpc = [idx \in Slots(old_table) |->
              IF old_table[idx].key = KEY_INVALID THEN "done" ELSE "cas"]
  /\ generated_hash = [idx \in Slots(old_table) |->
              IF old_table[idx].key = KEY_INVALID THEN 0
              ELSE Home(old_table[idx].key, capacity)]
  /\ ret = Ret("pending")
  /\ call = [op |-> "reshape", used0 |-> used_buckets,
             capacity0 |-> Len0(old_table), pairs0 |-> Pairs(old_table),
             n |-> capacity, resized |-> TRUE, asked |-> << >>, fresh |-> FALSE]
  /\ last = [k \in Keys |-> {}]
  /\ hist = [reshape |-> TRUE]
  /\ probes = [idx \in Slots(old_table) |-> 0]
  /\ claimed = Unclaimed(capacity)
  /\ writers = Unwritten(capacity)

KernelInit == KernelInsertInit \/ KernelReshapeInit

KernelNext ==
  \/ \E idx \in Workers : ReshapeCAS(idx)
  \/ \E idx \in Workers : ReshapeWrite(idx)
  \/ ReshapeReturn
  \/ \E idx \in Workers : InsertCAS(idx)
  \/ \E idx \in Workers : InsertAdd(idx)
  \/ \E idx \in Workers : InsertWrite(idx)
  \/ InsertBatchReturn

KernelSpec == KernelInit /\ [][KernelNext]_vars /\ Fairness

(***************************************************************************)
(* Properties.                                                             *)
(***************************************************************************)
KeysOf(pairs) == {p[1] : p \in pairs}
SlotOf(tab, key) == CHOOSE s \in Slots(tab) : tab[s].key = key
Returned(op) == pc = "idle" /\ call.op = op /\ ret.val # "pending"

\* the slots from a home bucket up to slot s along the cyclic probe sequence
ProbePath(home, s, cap) == {(home + d) % cap : d \in 0..(((s + cap) - home) % cap)}

\* a key that sits in another slot than its home bucket
Displaced(tab, cap) == {s \in NonEmpty(tab) : Home(tab[s].key, cap) # s}

\* C1 (round trip): as long as the table has only been used through
\* insertBatch and getBatch, every key that was ever inserted is found by the
\* lookup with a value the most recent batch holding that key gave for it (the
\* value, when the batch's keys are distinct), and a getBatch that has returned
\* has output exactly that for each such key it was asked for.
RoundTrip ==
  ~hist.reshape =>
    /\ pc = "idle" =>
         \A k \in Keys : last[k] # {} => Found(table, capacity, k) \in last[k]
    /\ (Returned("getBatch") /\ call.n > 0) =>
         \A i \in DOMAIN call.asked :
            last[call.asked[i]] # {} => ret.host_values[i] \in last[call.asked[i]]

\* C1 witness: a getBatch has returned the last value of a key that lies
\* behind the other key on its probe sequence
RoundTripSeen ==
  /\ Returned("getBatch")
  /\ ~hist.reshape
  /\ call.n = 1
  /\ last[call.asked[0]] = {ret.host_values[0]}
  /\ Cardinality(LiveKeys(table)) = 2
  /\ SlotOf(table, call.asked[0]) \in Displaced(table, capacity)

\* C2 (idempotent re-insertion): a batch of the single key k, with k in the
\* table when the batch is called, ends with its worker on the update branch
\* and the update counted once; when the call has returned, used_buckets is
\* what it was before the call, resize or not, and the lookup finds the
\* batch's value for k.
Reinsertion ==
  (call.op = "insertBatch" /\ call.n = 1 /\ call.asked[0] \in KeysOf(call.pairs0)) =>
    /\ (pc = "insert" /\ Finished(wpc[0])) =>
         (wpc[0] = "done" /\ count_updated_keys = 1)
    /\ pc = "idle" =>
         /\ used_buckets = call.used0
         /\ Found(table, capacity, call.asked[0]) \in last[call.asked[0]]
         /\ Cardinality(last[call.asked[0]]) = 1

\* C2 witness: such a batch has returned after a resize and has changed the
\* value of k
ReinsertionSeen ==
  /\ Returned("insertBatch")
  /\ call.n = 1
  /\ call.resized
  /\ call.asked[0] \in KeysOf(call.pairs0)
  /\ <<call.asked[0], Found(table, capacity, call.asked[0])>> \notin call.pairs0
  /\ used_buckets = call.used0

\* C3 (load-factor ceiling): when insertBatch has returned true,
\* used_buckets / capacity <= 0.8.
LoadFactorCeiling ==
  (Returned("insertBatch") /\ ret.val = "true") => 5 * used_buckets <= 4 * capacity

\* C4 (lossless growth): after an insertBatch of m distinct keys that were not
\* in the table, called with used + m <= 0.8 * capacity, the capacity is what
\* it was (no resize), used_buckets has grown by m, and every key of the batch
\* is found with the value the batch gave it.
LosslessGrowth ==
  (Returned("insertBatch") /\ ret.val = "true" /\ call.fresh
     /\ 5 * (call.used0 + call.n) <= 4 * call.capacity0) =>
    /\ ~call.resized
    /\ capacity = call.capacity0
    /\ used_buckets = call.used0 + call.n
    /\ \A i \in DOMAIN call.asked :
         /\ call.asked[i] \in LiveKeys(table)
         /\ Found(table, capacity, call.asked[i]) \in last[call.asked[i]]

\* C5 (reshape preserves the entries): when every worker of a rehash into a
\* store of at least used_buckets / 0.5 slots has finished, the new store
\* holds the (key, value) pairs of the old store, one slot each; and when
\* such a reshape(c) has returned, the store of c slots holds the pairs the
\* table had at the call and used_buckets is unchanged.
ReshapePreserves ==
  /\ (pc = "reshape" /\ capacity >= 2 * used_buckets
        /\ \A idx \in DOMAIN wpc : Finished(wpc[idx])) =>
       /\ Pairs(table) = Pairs(old_table)
       /\ Cardinality(NonEmpty(table)) = Cardinality(NonEmpty(old_table))
  /\ (Returned("reshape") /\ call.n >= 2 * call.used0) =>
       /\ Pairs(table) = call.pairs0
       /\ Cardinality(NonEmpty(table)) = Cardinality(call.pairs0)
       /\ capacity = call.n
       /\ used_buckets = call.used0

\* C5 witness: such a reshape has returned with two entries, one of which it
\* had to place behind the other
ReshapePreservesSeen ==
  /\ Returned("reshape")
  /\ call.n >= 2 * call.used0
  /\ Cardinality(call.pairs0) = 2
  /\ Displaced(table, capacity) # {}
  /\ \E p \in call.pairs0 : p[1] # p[2]

\* C6 (resize decision): an insertBatch of n >= 1 keys resizes exactly when
\* (used + n) / capacity > 0.8 for the counts at the call, and the capacity it
\* resizes to is 2 * (used + n); kernelInsert runs only once the rehash is over.
ResizeDecision ==
  (call.op = "insertBatch" /\ call.n >= 1) =>
    /\ call.resized <=> (5 * (call.used0 + call.n) > 4 * call.capacity0)
    /\ call.resized => capacity = 2 * (call.used0 + call.n)
    /\ ~call.resized => capacity = call.capacity0
    /\ pc = "insert" => old_table = << >>

\* C7 (no key in two slots): in every state, each key is in at most one slot
\* of the current store and of a store being rehashed.
NoDuplicateKeys ==
  /\ \A s, t \in NonEmpty(table) : table[s].key = table[t].key => s = t
  /\ \A s, t \in NonEmpty(old_table) : old_table[s].key = old_table[t].key => s = t

\* C7 witness: of two workers of one batch with the same new key, one has
\* claimed a slot and the other has found the key there
NoDuplicateKeysSeen ==
  /\ pc = "insert"
  /\ \E i, j \in DOMAIN wpc :
       /\ i # j
       /\ device_keys[i] = device_keys[j]
       /\ device_keys[i] \notin KeysOf(call.pairs0)
       /\ wpc[i] \in {"write", "done"}
       /\ wpc[j] = "add"
       /\ generated_hash[i] = generated_hash[j]

\* C8 (bookkeeping bound): between calls, 0 <= used_buckets <= capacity.
UsedWithinCapacity ==
  pc = "idle" => (0 <= used_buckets /\ used_buckets <= capacity)

\* C9 (used counts the live keys): between calls, used_buckets is the number
\* of non-empty slots of the store.
UsedIsLiveCount ==
  pc = "idle" => used_buckets = Cardinality(NonEmpty(table))

\* C10 (no holes): in every state, every slot between the home bucket of a
\* stored key and the slot that holds it, along the probe sequence, is
\* non-empty, in the current store and in a store being rehashed.
NoHoles ==
  /\ \A s \in NonEmpty(table) :
       \A t \in ProbePath(Home(table[s].key, capacity), s, capacity) :
          table[t].key # KEY_INVALID
  /\ \A s \in NonEmpty(old_table) :
       \A t \in ProbePath(Home(old_table[s].key, Len0(old_table)), s, Len0(old_table)) :
          old_table[t].key # KEY_INVALID

\* C10 witness: inside a kernel, a key lies past the end of the store from its
\* home bucket, in a slot before it
NoHolesSeen ==
  /\ pc \in {"insert", "reshape"}
  /\ \E s \in NonEmpty(table) : s < Home(table[s].key, capacity)
  /\ \E idx \in DOMAIN wpc : ~Finished(wpc[idx])

\* the table holds the key; the table has an empty slot (the probe sequence
\* goes through every slot, so the slot is reachable from any home bucket)
Present(tab, key) == key \in LiveKeys(tab)
EmptyReachable(tab) == \E s \in Slots(tab) : tab[s].key = KEY_INVALID

GetWorkers == 0..(MaxGet - 1)

\* C11 (lookup termination): a kernelGet worker whose key is in the table, or
\* whose table has an empty slot, eventually finishes; a worker that has
\* finished on a key of the table has stopped at the key's slot, after at most
\* capacity passes of its loop, and has output that slot's value.
LookupTermination ==
  /\ [](pc = "get" =>
         \A idx \in DOMAIN wpc :
            (wpc[idx] = "done" /\ Present(table, device_keys[idx])) =>
              /\ generated_hash[idx] = SlotOf(table, device_keys[idx])
              /\ device_values[idx] = table[generated_hash[idx]].value
              /\ probes[idx] <= capacity)
  /\ \A idx \in GetWorkers :
       (/\ pc = "get"
        /\ idx \in DOMAIN wpc
        /\ (Present(table, device_keys[idx]) \/ EmptyReachable(table)))
         ~> (idx \notin DOMAIN wpc \/ wpc[idx] = "done")

\* C12 (zero-length batch): an insertBatch that has returned has returned
\* false exactly when it was called with n = 0; a call of insertBatch or
\* getBatch with n = 0 returns at once (false, NULL) and leaves the store,
\* capacity, used_buckets and the allocations as they were, whatever the load.
ZeroLengthBatch ==
  /\ [](Returned("insertBatch") => (ret.val = "false" <=> call.n = 0))
  /\ []((Returned("getBatch") /\ call.n = 0) => ret.val = "NULL")
  /\ [][(pc = "idle" /\ caller' \in {"insertBatch", "getBatch"} /\ keys' = << >>) =>
          /\ table' = table
          /\ capacity' = capacity
          /\ used_buckets' = used_buckets
          /\ old_table' = old_table
          /\ heap' = heap
          /\ pc' = "idle"
          /\ ret'.val = (IF caller' = "insertBatch" THEN "false" ELSE "NULL")]_vars

\* C12 witness: an empty insertBatch has returned false on a table whose load
\* is over the ceiling, where any other batch resizes
ZeroLengthBatchSeen ==
  /\ Returned("insertBatch")
  /\ call.n = 0
  /\ ret.val = "false"
  /\ 5 * used_buckets > 4 * capacity
  /\ capacity = call.capacity0

\* C13 (getBatch is read-only): no step of a getBatch call, from the call to
\* the return and for present and absent keys alike, changes a slot of the
\* store, capacity or used_buckets, or starts a reshape.
GetBatchReadOnly ==
  [][(pc = "get" \/ pc' = "get" \/ (pc = "idle" /\ caller' = "getBatch")) =>
       /\ table' = table
       /\ capacity' = capacity
       /\ used_buckets' = used_buckets
       /\ old_table' = old_table
       /\ pc' # "reshape"]_vars

\* C13 witness: a getBatch has returned the value of a key of a full store of
\* two entries, whose load is over the ceiling
GetBatchReadOnlySeen ==
  /\ Returned("getBatch")
  /\ call.n = 1
  /\ ret.val = "host_values"
  /\ 5 * used_buckets > 4 * capacity
  /\ Cardinality(call.pairs0) = 2
  /\ Pairs(table) = call.pairs0

\* C14 (resize never shrinks): no step of any call makes capacity smaller, so
\* capacity never decreases over the life of the table.
NeverShrinks == [][capacity' >= capacity]_vars

\* the slots whose value field has been stored to by a worker other than the
\* one whose atomicCAS claimed the slot in the running kernel
Shared == {s \in DOMAIN claimed : claimed[s] # NoWorker /\ ~(writers[s] \subseteq {claimed[s]})}

\* C15 (exclusive writer): in every state of an insert or reshape kernel, a
\* slot claimed in that kernel has had its value field written by no worker
\* but the one that claimed it.
ExclusiveWriter == pc \in {"insert", "reshape"} => Shared = {}

\* C15 as amended: the same, for every reshape kernel and for every insert
\* kernel whose batch holds no key twice; and in every insert kernel, the
\* workers that have written a slot's value are workers of the key the slot
\* holds.
ExclusiveWriterDistinct ==
  /\ (pc = "reshape" \/ (pc = "insert" /\ Distinct(device_keys))) => Shared = {}
  /\ pc = "insert" =>
       \A s \in DOMAIN writers : \A idx \in writers[s] : device_keys[idx] = table[s].key

\* C15 witness: two workers of a batch of two different keys have each written
\* the value of the slot they claimed, one of them after losing the
\* atomicCAS on the other's slot
ExclusiveWriterSeen ==
  /\ pc = "insert"
  /\ Distinct(device_keys)
  /\ \E s, t \in DOMAIN claimed :
       /\ s # t
       /\ claimed[s] # NoWorker /\ writers[s] = {claimed[s]}
       /\ claimed[t] # NoWorker /\ writers[t] = {claimed[t]}
       /\ Home(device_keys[claimed[t]], capacity) = s

\* C16 (no probe exhaustion through insertBatch): whatever calls came before,
\* direct reshapes included, no worker of kernelInsert, and no worker of a
\* kernelReshape launched by insertBatch, gives up on coming back to its home
\* bucket.
NoExhaustionByInsert ==
  (pc = "insert" \/ (pc = "reshape" /\ caller = "insertBatch")) =>
    \A idx \in DOMAIN wpc : wpc[idx] # "abandoned"

\* C16 witness: insertBatch was called on a store that a direct reshape had
\* left without an empty slot, and its workers have all finished in the
\* store it resized to
NoExhaustionByInsertSeen ==
  /\ pc = "insert"
  /\ hist.reshape
  /\ call.resized
  /\ Cardinality(call.pairs0) = call.capacity0
  /\ \E idx \in DOMAIN wpc : device_keys[idx] \notin KeysOf(call.pairs0)
  /\ \A idx \in DOMAIN wpc : wpc[idx] = "done"

\* a direct reshape(c) is running, or was the last call, with 1 <= c smaller
\* than the number of live keys at the call
Shrinking == call.op = "reshape" /\ call.n < Cardinality(call.pairs0)

\* the store has call.n slots, all of them taken, by call.n different keys,
\* each with the value it had at the call
FullOfOld ==
  /\ Len0(table) = call.n
  /\ NonEmpty(table) = Slots(table)
  /\ Cardinality(LiveKeys(table)) = call.n
  /\ Pairs(table) \subseteq call.pairs0

\* C17 (exhaustion drops without corruption): a reshape(c) with c smaller
\* than the number of live keys returns; once its workers have finished, and
\* when it has returned, the new store is full with c different keys, each
\* with its old value; a worker that has given up has claimed no slot, has
\* written no value and its key is not in the new store.
ExhaustionDrops ==
  /\ []((pc = "reshape" /\ Shrinking) =>
         /\ \A idx \in DOMAIN wpc : wpc[idx] = "abandoned" =>
               /\ \A s \in DOMAIN claimed : claimed[s] # idx /\ idx \notin writers[s]
               /\ old_table[idx].key \notin LiveKeys(table)
         /\ (\A idx \in DOMAIN wpc : Finished(wpc[idx])) =>
               /\ FullOfOld
               /\ \E idx \in DOMAIN wpc : wpc[idx] = "abandoned")
  /\ []((Returned("reshape") /\ Shrinking) =>
         (FullOfOld /\ capacity = call.n /\ ret.val = "void"))
  /\ (pc = "reshape" /\ Shrinking) ~> (Returned("reshape") /\ Shrinking)

\* C17 witness: reshape(1) has returned on a table that held two keys with
\* different values
ExhaustionDropsSeen ==
  /\ Returned("reshape")
  /\ Shrinking
  /\ Cardinality(call.pairs0) = 2
  /\ \E p, q \in call.pairs0 : p[2] # q[2]
  /\ FullOfOld

\* C18 (install after the barrier): while the rehash is running, the table
\* object's store and capacity are still the old store and the old capacity.
InstallAfterBarrier ==
  pc = "reshape" => (table = old_table /\ capacity = Len0(old_table))

\* the size the running reshape was asked for
Requested ==
  IF caller = "reshape" THEN call.n ELSE ReshapeSize(call.used0, call.n)

\* C18 as amended: the table object's store and capacity are the new store
\* and the new capacity from before the launch of the rehash on; the old
\* store is kept aside, allocated and as it was at the call, until the
\* barrier; the new store holds nothing but what the rehash workers have
\* claimed; and the call returns only from behind the barrier, so that no
\* other operation ever sees the partially populated store.
InstallBeforeLaunch ==
  /\ pc = "reshape" =>
       /\ Len0(table) = capacity
       /\ capacity = Requested
       /\ "old_table" \in heap
       /\ Len0(old_table) = call.capacity0
       /\ Pairs(old_table) = call.pairs0
       /\ NonEmpty(table) = {s \in DOMAIN claimed : claimed[s] # NoWorker}
       /\ LiveKeys(table) \subseteq LiveKeys(old_table)
  /\ pc # "reshape" =>
       /\ old_table = << >>
       /\ "old_table" \notin heap
       /\ Len0(table) = capacity

\* C18 witness: in the middle of a rehash into a store of another size, one
\* entry is in the current store and another is not yet
InstallBeforeLaunchSeen ==
  /\ pc = "reshape"
  /\ capacity # call.capacity0
  /\ \E idx \in DOMAIN wpc : wpc[idx] = "done" /\ old_table[idx].key # KEY_INVALID
  /\ \E idx \in DOMAIN wpc : wpc[idx] = "cas"

\* C19 (free after the barrier): as long as the rehash is running, with one
\* worker for each slot of the old store, the old store is allocated; the
\* step that frees it is taken only when every worker has finished; and no
\* step of the rehash changes the old store.
FreeAfterBarrier ==
  /\ [](pc = "reshape" =>
         ("old_table" \in heap /\ DOMAIN wpc = Slots(old_table)))
  /\ [][("old_table" \in heap /\ "old_table" \notin heap') =>
          \A idx \in DOMAIN wpc : Finished(wpc[idx])]_vars
  /\ [][(pc = "reshape" /\ pc' = "reshape") => old_table' = old_table]_vars

\* C19 witness: a rehash of two entries is over, the last worker has just
\* finished and the old store is still allocated
FreeAfterBarrierSeen ==
  /\ pc = "reshape"
  /\ Cardinality(NonEmpty(old_table)) = 2
  /\ \A idx \in DOMAIN wpc : Finished(wpc[idx])
  /\ "old_table" \in heap
  /\ Pairs(table) = Pairs(old_table)

\* the key a worker of the running kernel is placing
WorkerKey(idx) == IF pc = "reshape" THEN old_table[idx].key ELSE device_keys[idx]

\* C20 (insert and rehash workers terminate): on any store, a worker of
\* kernelInsert or kernelReshape makes at most capacity passes of its loop; one
\* that has given up has made exactly capacity passes, is back at its home
\* bucket and has claimed and written nothing; any other finished worker of a
\* key has its key in the slot it stopped at; every worker eventually
\* finishes, and the call eventually returns.
WorkersTerminate ==
  /\ [](pc \in {"insert", "reshape"} =>
         \A idx \in DOMAIN wpc :
            /\ probes[idx] <= capacity
            /\ wpc[idx] = "abandoned" =>
                 /\ probes[idx] = capacity
                 /\ generated_hash[idx] = Home(WorkerKey(idx), capacity)
                 /\ \A s \in DOMAIN claimed : claimed[s] # idx /\ idx \notin writers[s]
            /\ (wpc[idx] \in {"add", "write", "done"} /\ WorkerKey(idx) # KEY_INVALID) =>
                 table[generated_hash[idx]].key = WorkerKey(idx))
  /\ \A idx \in Workers :
       (pc \in {"insert", "reshape"} /\ idx \in DOMAIN wpc)
         ~> (idx \notin DOMAIN wpc \/ Finished(wpc[idx]))
  /\ (pc \in {"insert", "reshape"}) ~> (pc = "idle" /\ ret.val \in {"true", "void"})

\* C20 witness: on a store without an empty slot, one insert worker has given
\* up and another has found its key and updated it
WorkersTerminateSeen ==
  /\ pc = "insert"
  /\ NonEmpty(table) = Slots(table)
  /\ capacity >= 2
  /\ \E idx \in DOMAIN wpc : wpc[idx] = "abandoned"
  /\ \E idx \in DOMAIN wpc : wpc[idx] = "done"

\* C21 (load factor kept in range by resizing): when an insertBatch that
\* resized has returned, 0.5 <= used_buckets / capacity <= 0.8.
LoadFactorInRange ==
  (Returned("insertBatch") /\ call.resized) =>
    (capacity <= 2 * used_buckets /\ 5 * used_buckets <= 4 * capacity)

\* the keys of the running or last batch that were not in the table at the
\* call, and those of them the batch holds more than once
NewKeys == {call.asked[i] : i \in DOMAIN call.asked} \ KeysOf(call.pairs0)
RepeatedNew ==
  {k \in NewKeys : Cardinality({i \in DOMAIN call.asked : call.asked[i] = k}) >= 2}

\* the workers of the running kernelInsert that have claimed a slot for key k
Claimers(k) ==
  {idx \in DOMAIN wpc : device_keys[idx] = k /\ \E s \in DOMAIN claimed : claimed[s] = idx}

\* C22 (repeated key inside one batch): for an insertBatch that holds a new
\* key more than once, at most one worker of the key has claimed a slot at
\* any time; when the workers have all finished exactly one has, the key is
\* in one slot and the updates counted are the batch's keys less its
\* distinct new keys; when the call has returned, used_buckets has grown by
\* the number of distinct new keys and the key is found, in one slot, with
\* one of the values the batch gave for it.
RepeatedKey ==
  (call.op = "insertBatch" /\ RepeatedNew # {}) =>
    /\ pc = "insert" =>
         /\ \A k \in RepeatedNew : Cardinality(Claimers(k)) <= 1
         /\ (\A idx \in DOMAIN wpc : Finished(wpc[idx])) =>
              /\ \A k \in RepeatedNew :
                    /\ Cardinality(Claimers(k)) = 1
                    /\ Cardinality({s \in NonEmpty(table) : table[s].key = k}) = 1
              /\ \A idx \in DOMAIN wpc : wpc[idx] = "done"
              /\ count_updated_keys = call.n - Cardinality(NewKeys)
    /\ pc = "idle" =>
         /\ used_buckets = call.used0 + Cardinality(NewKeys)
         /\ \A k \in RepeatedNew :
               /\ Cardinality({s \in NonEmpty(table) : table[s].key = k}) = 1
               /\ Found(table, capacity, k) \in last[k]

\* C22 witness: a batch that gave two different values for one new key has
\* returned, on a table that already held another key
RepeatedKeySeen ==
  /\ Returned("insertBatch")
  /\ RepeatedNew # {}
  /\ \E k \in RepeatedNew : Cardinality(last[k]) = 2
  /\ call.pairs0 # {}

\* the (key, value) pairs an insertBatch of distinct keys must leave: those of
\* the table at the call for the keys the batch does not hold, and the
\* batch's own
AfterBatch ==
  LET batch == {call.asked[i] : i \in DOMAIN call.asked}
  IN  {p \in call.pairs0 : p[1] \notin batch}
        \cup {p \in batch \X Vals : p[2] \in last[p[1]]}

\* C23 (the result does not depend on the interleaving): the mapping,
\* used_buckets and capacity a call ends with are functions of the state at
\* the call and of its arguments.  When an insertBatch of distinct keys has
\* returned, the table maps the batch's keys to the batch's values and every
\* other key as before, one slot a key, used_buckets has grown by the new
\* keys, and capacity is the old one or the size of the resize; when a
\* reshape(c) with c at least the number of live keys has returned, the
\* table of c slots maps every key as before and used_buckets is unchanged.
SameResult ==
  /\ (Returned("insertBatch") /\ call.n >= 1 /\ Distinct(call.asked)) =>
       /\ Pairs(table) = AfterBatch
       /\ Cardinality(NonEmpty(table)) = Cardinality(AfterBatch)
       /\ used_buckets = call.used0 + Cardinality(NewKeys)
       /\ capacity = (IF call.resized THEN ReshapeSize(call.used0, call.n)
                                      ELSE call.capacity0)
  /\ (Returned("reshape") /\ call.n >= Cardinality(call.pairs0)) =>
       /\ Pairs(table) = call.pairs0
       /\ Cardinality(NonEmpty(table)) = Cardinality(call.pairs0)
       /\ used_buckets = call.used0
       /\ capacity = call.n

\* C23 witness: an insertBatch of two new keys with the same home bucket has
\* returned, and the worker of the second key was the one to get the home
\* bucket
SameResultSeen ==
  /\ Returned("insertBatch")
  /\ call.n = 2
  /\ call.fresh
  /\ Home(call.asked[0], capacity) = Home(call.asked[1], capacity)
  /\ table[Home(call.asked[1], capacity)].key = call.asked[1]

\* C24 (no leaked device memory): between calls the table holds one device
\* allocation, its current store, of capacity slots; the current store is
\* allocated at all times; the old store of a resize is allocated when the
\* rehash starts and is freed by the step that ends the rehash, and by no
\* other; a staging buffer is freed only by the step that returns from the
\* call that allocated it.
NoLeak ==
  /\ [](pc = "idle" => (heap = {"table"} /\ Len0(table) = capacity))
  /\ []("table" \in heap)
  /\ [][(pc # "reshape" /\ pc' = "reshape") =>
          ("old_table" \notin heap /\ "old_table" \in heap')]_vars
  /\ [][(pc = "reshape" /\ pc' # "reshape") =>
          ("old_table" \in heap /\ "old_table" \notin heap')]_vars
  /\ [][("old_table" \in heap /\ "old_table" \notin heap') =>
          (pc = "reshape" /\ pc' # "reshape")]_vars
  /\ [][\A b \in Staging : (b \in heap /\ b \notin heap') =>
          (pc \in {"insert", "get"} /\ pc' = "idle")]_vars

\* C24 witness: an insertBatch that resized a table of two entries has
\* returned, and the current store is the only allocation
NoLeakSeen ==
  /\ Returned("insertBatch")
  /\ ret.val = "true"
  /\ call.resized
  /\ Cardinality(call.pairs0) = 2
  /\ heap = {"table"}

====
